---- MODULE Spec2Model ----
(***************************************************************************)
(* A model of searchspaces/partialplus.py: the node store (Literal and     *)
(* PartialPlus objects, identified by their position in the heap), the     *)
(* depth-first and topological traversals, the evaluator and the parameter *)
(* binder.                                                                 *)
(***************************************************************************)
EXTENDS Integers, Sequences, FiniteSets, TLC

\* ------------------------------------------------------------------------
\* Bounds of the explored instances.
\* ------------------------------------------------------------------------

\* Number of node objects constructed when mutations may follow.
MaxNodes == 3

\* Number of node objects constructed when the graph is built by the
\* constructors alone.
MaxDagNodes == 4

\* Length of the positional children a traversal scenario gives one node.
MaxArgs == 2

\* Number of append_arg / keyword mutations applied after construction.
MaxMutations == 1

\* Number of builder calls that make an expression graph to evaluate.
MaxCalls == 4

\* Length of the native lists and tuples given to as_partialplus.
MaxElems == 2

\* The integers given to partial(int, a): -MaxNegInt..MaxInt.
MaxInt == 11
MaxNegInt == 3
MaxPositional == 3
MaxCloneNodes == 3
MaxOuterElems == 1

\* Keyword names used on traversal scenario nodes.
KwNames == {"x"}

\* ------------------------------------------------------------------------
\* State.
\* ------------------------------------------------------------------------

VARIABLES
    heap,           \* the node objects: heap[i] is the node of identity i
    mutations,      \* number of mutations applied so far
    phase,          \* "build", a traversal phase, "done", "evaluated", "bound"
    root,           \* root argument of the running traversal
    build_inverted, \* _traversal_helper's build_inverted argument
    visited,        \* _traversal_helper's visited dict
    to_visit,       \* _traversal_helper's to_visit deque of <<parent, node>>
    path,           \* _traversal_helper's path, a UniqueStack
    yielded,        \* the nodes _traversal_helper has yielded, in order
    raised,         \* the exception the traversal ended with, or "none"
    candidates,     \* topological_sort's candidates deque
    dependencies,   \* topological_sort's dependencies dict
    ts_visited,     \* topological_sort's visited set
    toposort,       \* the nodes topological_sort has yielded, in order
    handles,        \* the builder calls made, in order: [call, node]
    result,         \* the outcome of the evaluate call
    arg_binding,    \* the outcome of reading the arg property
    cloned,         \* the outcome of the clone call
    replaced,       \* the replace_input call made and its outcome
    lifted_value    \* the host value handed to as_partialplus

graphVars == <<heap, mutations>>
helperVars == <<root, build_inverted, visited, to_visit, path, yielded>>
topoVars == <<candidates, dependencies, ts_visited, toposort>>
evalVars == <<handles, result, arg_binding, cloned, replaced,
              lifted_value>>
vars == <<heap, mutations, phase, root, build_inverted, visited, to_visit,
          path, yielded, raised, candidates, dependencies, ts_visited,
          toposort, handles, result, arg_binding, cloned,
          replaced, lifted_value>>

\* ------------------------------------------------------------------------
\* Generic helpers.
\* ------------------------------------------------------------------------

Range(s) == {s[i] : i \in 1..Len(s)}

\* Sequences over S of length at most n.
SeqsUpTo(S, n) == UNION {[1..k -> S] : k \in 0..n}

\* The position of the first occurrence of x in s (0 when absent).
IndexOf(s, x) ==
    IF x \in Range(s) THEN CHOOSE i \in 1..Len(s) :
                               s[i] = x /\ \A j \in 1..(i-1) : s[j] # x
    ELSE 0

Reverse(s) == [i \in 1..Len(s) |-> s[Len(s) + 1 - i]]

\* ------------------------------------------------------------------------
\* The node model.
\* ------------------------------------------------------------------------

\* The "no parent" sentinel of _traversal_helper (Python's None); node
\* identities are 1..Len(heap).
NoneNode == 0

\* The order in which a keywords dict of the model enumerates its keys.
KeyOrder ==
    <<"name", "value_type", "minimum", "maximum", "default", "log_scale",
      "distribution", "kwargs", "x", "y", "a", "b", "u", "foo">>

\* Host values, tagged with their type.
NoneVal == [t |-> "None", v |-> <<>>]
IntVal(n) == [t |-> "int", v |-> n]
StrVal(s) == [t |-> "str", v |-> s]
ListVal(s) == [t |-> "list", v |-> s]
TupleVal(s) == [t |-> "tuple", v |-> s]
SliceVal(a, b) == [t |-> "slice", v |-> <<a, b>>]
TypeVal(s) == [t |-> "type", v |-> s]

\* Literal(value): func, args and keywords are the class attributes None.
Literal(value) ==
    [kind |-> "Literal", func |-> "None", args |-> <<>>,
     keywords |-> <<>>, value |-> value]

\* PartialPlus(f, *args, **kwargs): _args and _keywords are kept as given.
PartialPlus(f, args, kwargs) ==
    [kind |-> "PartialPlus", func |-> f, args |-> args,
     keywords |-> kwargs, value |-> NoneVal]

\* dict.values() of a keywords dict, in the dict's enumeration order.
KwKeys(kw) == SelectSeq(KeyOrder, LAMBDA k : k \in DOMAIN kw)
KwValues(kw) == [i \in 1..Len(KwKeys(kw)) |-> kw[KwKeys(kw)[i]]]

\* children of a PartialPlus as _traversal_helper enumerates them:
\* node.args + tuple(node.keywords.values()).
Children(h, n) == h[n].args \o KwValues(h[n].keywords)

\* PartialPlus.append_arg(arg): self._args = self._args + (arg,)
append_arg(h, n, arg) == [h EXCEPT ![n].args = Append(@, arg)]

\* Direct keyword mutation: node.keywords[k] = v
set_keyword(h, n, k, v) ==
    [h EXCEPT ![n].keywords =
        [kk \in (DOMAIN @) \cup {k} |-> IF kk = k THEN v ELSE @[kk]]]

\* ------------------------------------------------------------------------
\* UniqueStack: a deque with a set of its members.
\* ------------------------------------------------------------------------

UniqueStackNew == [deque |-> <<>>, members |-> {}, error |-> "none"]

\* push without the membership test.
StackPushUnchecked(s, elem) ==
    [s EXCEPT !.deque = Append(@, elem), !.members = @ \cup {elem}]

\* push: KeyError when the element is already a member.
StackPush(s, elem) ==
    IF elem \in s.members
    THEN [s EXCEPT !.error = "KeyError"]
    ELSE [s EXCEPT !.deque = Append(@, elem), !.members = @ \cup {elem}]

\* pop: removes the topmost element.
StackPop(s) ==
    IF Len(s.deque) = 0
    THEN [s EXCEPT !.error = "IndexError"]
    ELSE [s EXCEPT !.deque = SubSeq(@, 1, Len(@) - 1),
                   !.members = @ \ {s.deque[Len(s.deque)]}]

\* The path left as it is, nothing unwound.
StackPopUntilNothing(s, elem) == s

\* pop_until: pop while the head is not elem; ValueError when emptied.
RECURSIVE StackPopUntil(_, _)
StackPopUntil(s, elem) ==
    IF Len(s.deque) > 0 /\ s.deque[Len(s.deque)] # elem
    THEN StackPopUntil(StackPop(s), elem)
    ELSE IF Len(s.deque) = 0
         THEN [s EXCEPT !.error = "ValueError"]
         ELSE s

\* ------------------------------------------------------------------------
\* as_partialplus and the builders.
\* ------------------------------------------------------------------------

BoolVal(b) == [t |-> "bool", v |-> b]
DictVal(pairs) == [t |-> "dict", v |-> pairs]

\* A host value that already is a node of the graph.
NodeRef(n) == [t |-> "node", v |-> n]

\* functools.partial(f, *args, **keywords) over host values.
PendingCall(f, args, keywords) ==
    [t |-> "partial", v |-> [func |-> f, args |-> args, keywords |-> keywords]]

\* The result of a builder: the heap with the new nodes, and the node made.
Built(h, n) == [heap |-> h, node |-> n]

RECURSIVE as_partialplus(_, _)
RECURSIVE LiftEach(_, _, _)

\* [as_partialplus(e) for e in seq]: the heap after lifting every element
\* in order, and the nodes they became.
LiftEach(h, seq, done) ==
    IF Len(seq) = 0 THEN [heap |-> h, nodes |-> done]
    ELSE LET one == as_partialplus(h, Head(seq))
         IN  LiftEach(one.heap, Tail(seq), Append(done, one.node))

\* as_partialplus(p)
as_partialplus(h, p) ==
    IF p.t = "node"
    THEN Built(h, p.v)
    ELSE IF p.t = "partial"
    THEN LET args == LiftEach(h, p.v.args, <<>>)
             keys == KwKeys(p.v.keywords)
             vals == LiftEach(args.heap,
                              [i \in 1..Len(keys) |-> p.v.keywords[keys[i]]],
                              <<>>)
             kwargs == [k \in DOMAIN p.v.keywords |->
                            vals.nodes[IndexOf(keys, k)]]
             h2 == Append(vals.heap, PartialPlus(p.v.func, args.nodes, kwargs))
         IN  Built(h2, Len(h2))
    ELSE IF p.t \in {"list", "tuple"}
    THEN LET func == IF p.t = "list" THEN "make_list" ELSE "make_tuple"
             elems == LiftEach(h, p.v, <<>>)
             h2 == Append(elems.heap, PartialPlus(func, elems.nodes, <<>>))
         IN  Built(h2, Len(h2))
    ELSE IF p.t = "dict"
    THEN LET h1 == Append(h, Literal(TypeVal("dict")))
             pairs == LiftEach(h1, [i \in 1..Len(p.v) |-> TupleVal(p.v[i])],
                               <<>>)
             h2 == Append(pairs.heap,
                          PartialPlus("call_with_list_of_pos_args",
                                      <<Len(h1)>> \o pairs.nodes, <<>>))
         IN  Built(h2, Len(h2))
    ELSE LET h2 == Append(h, Literal(p))
         IN  Built(h2, Len(h2))

\* partial(f, *args, **kwargs)
partial(h, f, args, kwargs) == as_partialplus(h, PendingCall(f, args, kwargs))

\* The symbols the arithmetic methods of PartialPlus pass on.
BinaryMethods ==
    {"__add__", "__sub__", "__mul__", "__div__", "__mod__", "__or__",
     "__xor__", "__and__"}

\* __or__ and __xor__ passing on each other's symbol.
MethodSymbolSwapped(method) ==
    CASE method = "__add__" -> "+"
      [] method = "__sub__" -> "-"
      [] method = "__mul__" -> "*"
      [] method = "__div__" -> "/"
      [] method = "__mod__" -> "%"
      [] method = "__or__"  -> "^"
      [] method = "__xor__" -> "|"
      [] method = "__and__" -> "&"

MethodSymbol(method) ==
    CASE method = "__add__" -> "+"
      [] method = "__sub__" -> "-"
      [] method = "__mul__" -> "*"
      [] method = "__div__" -> "/"
      [] method = "__mod__" -> "%"
      [] method = "__or__"  -> "|"
      [] method = "__xor__" -> "^"
      [] method = "__and__" -> "&"

\* PartialPlus.__add__ and its siblings:
\* partial(_binary_arithmetic, self, other, symbol)
BinaryMethod(h, method, self, other) ==
    partial(h, "_binary_arithmetic",
            <<NodeRef(self), other, StrVal(MethodSymbol(method))>>, <<>>)

\* PartialPlus.__getitem__(item)
getitem(h, self, item) ==
    LET lifted == IF item.t = "node" THEN Built(h, item.v)
                  ELSE as_partialplus(h, item)
    IN  partial(lifted.heap, "_getitem",
                <<NodeRef(self), NodeRef(lifted.node)>>, <<>>)

\* variable(name, value_type, minimum=None, maximum=None, default=None,
\*          log_scale=False, distribution=None, **kwargs): d = locals();
\* d.update(kwargs); partial(variable_node, **d)
variable(h, name, value_type, default, kwargs) ==
    LET locals == [k \in {"name", "value_type", "minimum", "maximum",
                          "default", "log_scale", "distribution", "kwargs"} |->
                     CASE k = "name" -> name
                       [] k = "value_type" -> value_type
                       [] k = "default" -> default
                       [] k = "log_scale" -> BoolVal(FALSE)
                       [] k = "kwargs" ->
                            DictVal([i \in 1..Len(KwKeys(kwargs)) |->
                                       <<StrVal(KwKeys(kwargs)[i]),
                                         kwargs[KwKeys(kwargs)[i]]>>])
                       [] OTHER -> NoneVal]
        d == [k \in (DOMAIN locals) \cup (DOMAIN kwargs) |->
                 IF k \in DOMAIN kwargs THEN kwargs[k] ELSE locals[k]]
    IN  partial(h, "variable_node", <<>>, d)

\* ------------------------------------------------------------------------
\* Host semantics of the values the evaluator handles.
\* ------------------------------------------------------------------------

\* Python's floor division and modulo of integers, b # 0.
PyFloorDiv(a, b) == IF b > 0 THEN a \div b ELSE (0 - a) \div (0 - b)
PyMod(a, b) == a - b * PyFloorDiv(a, b)

\* Python's bitwise operators on integers (two's complement, unbounded).
RECURSIVE PyAnd(_, _)
PyAnd(x, y) ==
    IF x = 0 \/ y = 0 THEN 0
    ELSE IF x = -1 THEN y
    ELSE IF y = -1 THEN x
    ELSE (x % 2) * (y % 2) + 2 * PyAnd(x \div 2, y \div 2)

RECURSIVE PyOr(_, _)
PyOr(x, y) ==
    IF x = 0 THEN y
    ELSE IF y = 0 THEN x
    ELSE IF x = -1 \/ y = -1 THEN -1
    ELSE (IF x % 2 = 1 \/ y % 2 = 1 THEN 1 ELSE 0)
         + 2 * PyOr(x \div 2, y \div 2)

RECURSIVE PyXor(_, _)
PyXor(x, y) ==
    IF x = 0 THEN y
    ELSE IF y = 0 THEN x
    ELSE IF x = -1 THEN (0 - y) - 1
    ELSE IF y = -1 THEN (0 - x) - 1
    ELSE (IF x % 2 = y % 2 THEN 0 ELSE 1) + 2 * PyXor(x \div 2, y \div 2)

\* The outcome of a host call: a value, or the exception it raised.
Returns(v) == [value |-> v, error |-> "none"]
Raises(e) == [value |-> NoneVal, error |-> e]

\* seq[i] for a Python sequence and an integer i.
PyItem(seq, i) ==
    IF i >= 0 /\ i < Len(seq) THEN Returns(seq[i + 1])
    ELSE IF i < 0 /\ i >= 0 - Len(seq) THEN Returns(seq[Len(seq) + i + 1])
    ELSE Raises("IndexError")

\* A slice bound clamped to a sequence of length n.
PyClamp(b, n) ==
    IF b < 0 THEN (IF n + b < 0 THEN 0 ELSE n + b)
    ELSE IF b > n THEN n ELSE b

\* seq[start:stop] for a Python sequence.
PySlice(seq, start, stop) ==
    SubSeq(seq, PyClamp(start, Len(seq)) + 1, PyClamp(stop, Len(seq)))

\* _BINARY_OPS[op](x, y) on integers.
BINARY_OPS(op, x, y) ==
    IF x.t # "int" \/ y.t # "int" THEN Raises("TypeError")
    ELSE CASE op = "+" -> Returns(IntVal(x.v + y.v))
           [] op = "-" -> Returns(IntVal(x.v - y.v))
           [] op = "*" -> Returns(IntVal(x.v * y.v))
           [] op = "/" -> IF y.v = 0 THEN Raises("ZeroDivisionError")
                          ELSE Returns(IntVal(PyFloorDiv(x.v, y.v)))
           [] op = "%" -> IF y.v = 0 THEN Raises("ZeroDivisionError")
                          ELSE Returns(IntVal(PyMod(x.v, y.v)))
           [] op = "^" -> Returns(IntVal(PyXor(x.v, y.v)))
           [] op = "&" -> Returns(IntVal(PyAnd(x.v, y.v)))
           [] op = "|" -> Returns(IntVal(PyOr(x.v, y.v)))
           [] OTHER -> Raises("KeyError")

\* _binary_arithmetic(x, y, op)
binary_arithmetic(args) ==
    IF Len(args) # 3 THEN Raises("TypeError")
    ELSE IF args[3].t # "str" THEN Raises("KeyError")
    ELSE BINARY_OPS(args[3].v, args[1], args[2])

\* _UNARY_OPS[op](x) on an integer.
UNARY_OPS(op, x) ==
    CASE op = "+" -> Returns(IntVal(x))
      [] op = "-" -> Returns(IntVal(0 - x))
      [] op = "~" -> Returns(IntVal(0 - x - 1))
      [] OTHER -> Raises("KeyError")

\* _unary_arithmetic(x, op)
unary_arithmetic(args) ==
    IF Len(args) # 2 THEN Raises("TypeError")
    ELSE IF args[1].t # "int" \/ args[2].t # "str" THEN Raises("TypeError")
    ELSE UNARY_OPS(args[2].v, args[1].v)

\* _getitem(obj, item): obj[item]
getitem_call(args) ==
    IF Len(args) # 2 THEN Raises("TypeError")
    ELSE IF args[1].t \notin {"list", "tuple"} THEN Raises("TypeError")
    ELSE IF args[2].t = "int"
    THEN PyItem(args[1].v, args[2].v)
    ELSE IF args[2].t = "slice"
    THEN Returns([t |-> args[1].t,
                  v |-> PySlice(args[1].v, args[2].v[1], args[2].v[2])])
    ELSE Raises("TypeError")

\* f(*args) in place of f(args): the pairs come back as a list.
call_with_unpacked_pos_args(args) == Returns(ListVal(Tail(args)))

\* call_with_list_of_pos_args(f, *args): f(args), for f the dict class.
call_with_list_of_pos_args(args) ==
    IF Len(args) = 0 THEN Raises("TypeError")
    ELSE IF args[1] # TypeVal("dict") THEN Raises("TypeError")
    ELSE IF \E i \in 2..Len(args) :
                args[i].t \notin {"list", "tuple"} \/ Len(args[i].v) # 2
    THEN Raises("TypeError")
    ELSE Returns(DictVal([i \in 1..(Len(args) - 1) |-> args[i + 1].v]))

\* f(*args, **kw) for the callables of the explored graphs.  objs is the
\* number of Foo instances made so far: a new instance is a new identity.
HostCall(f, args, kw, objs) ==
    CASE f = "make_list" ->
            IF DOMAIN kw # {} THEN Raises("TypeError") ELSE Returns(ListVal(args))
      [] f = "make_tuple" ->
            IF DOMAIN kw # {} THEN Raises("TypeError") ELSE Returns(TupleVal(args))
      [] f = "_getitem" ->
            IF DOMAIN kw # {} THEN Raises("TypeError") ELSE getitem_call(args)
      [] f = "_binary_arithmetic" ->
            IF DOMAIN kw # {} THEN Raises("TypeError")
            ELSE binary_arithmetic(args)
      [] f = "call_with_list_of_pos_args" ->
            IF DOMAIN kw # {} THEN Raises("TypeError")
            ELSE call_with_list_of_pos_args(args)
      [] f = "int" ->
            IF DOMAIN kw # {} \/ Len(args) # 1 \/ args[1].t # "int"
            THEN Raises("TypeError") ELSE Returns(args[1])
      [] f = "_unary_arithmetic" ->
            IF DOMAIN kw # {} THEN Raises("TypeError")
            ELSE unary_arithmetic(args)
      [] f = "abs" ->
            IF DOMAIN kw # {} \/ Len(args) # 1 \/ args[1].t # "int"
            THEN Raises("TypeError")
            ELSE Returns(IntVal(IF args[1].v < 0 THEN 0 - args[1].v
                                ELSE args[1].v))
      [] f = "add" ->
            IF Len(args) = 2 /\ DOMAIN kw = {}
            THEN Returns(IntVal(args[1].v + args[2].v))
            ELSE IF Len(args) = 1 /\ DOMAIN kw = {"y"}
            THEN Returns(IntVal(args[1].v + kw["y"].v))
            ELSE IF Len(args) = 0 /\ DOMAIN kw = {"x", "y"}
            THEN Returns(IntVal(kw["x"].v + kw["y"].v))
            ELSE Raises("TypeError")
      [] f = "Foo" ->
            IF DOMAIN kw # {} \/ Len(args) # 0
            THEN Raises("TypeError")
            ELSE Returns([t |-> "Foo", v |-> objs + 1])
      [] f = "dont_eval" -> Raises("AssertionError")
      [] f = "variable_node" ->
            IF Len(args) # 0 THEN Raises("AssertionError")
            ELSE Returns(NoneVal)
      [] OTHER -> Raises("TypeError")

\* ------------------------------------------------------------------------
\* _evaluate.
\* ------------------------------------------------------------------------

\* The state of one evaluate call.  bindings is the dict evaluate passes
\* down: cache holds its node keys, names its string keys (the keyword
\* arguments of evaluate).  calls lists the invocations of instantiate_call
\* with the node being computed, uses the values recurse handed back.
EvalStart(names) ==
    [cache |-> <<>>, names |-> names, calls |-> <<>>, uses |-> <<>>,
     objs |-> 0, error |-> "none", value |-> NoneVal]

\* bindings[p] = v; return bindings[p]
Bind(st, p, v) ==
    [st EXCEPT !.cache = [n \in (DOMAIN @) \cup {p} |->
                              IF n = p THEN v ELSE @[n]],
               !.value = v]

Fail(st, e) == [st EXCEPT !.error = e, !.value = NoneVal]

\* instantiate_call(f, *args, **kw) on behalf of node p.
instantiate_call(st, p, f, args, kw) ==
    LET out == HostCall(f, args, kw, st.objs)
        logged == [st EXCEPT !.calls = Append(@, [node |-> p, func |-> f])]
    IN  IF out.error # "none" THEN Fail(logged, out.error)
        ELSE [logged EXCEPT !.value = out.value,
                            !.objs = IF f = "Foo" THEN @ + 1 ELSE @]

\* A lookup that never finds the node.
CachedNever(st, p) == FALSE

\* `p in bindings` for a node p.
Cached(st, p) == p \in DOMAIN st.cache

\* A test that recognises no sequence node.
is_sequence_node_never(h, obj) == FALSE

\* isinstance(obj, _partial) and is_sequence_node(obj)
is_sequence_node(h, obj) ==
    h[obj].kind = "PartialPlus" /\ h[obj].func \in {"make_list", "make_tuple"}

\* is_variable_node(node)
is_variable_node(h, node) ==
    h[node].kind = "PartialPlus" /\ h[node].func = "variable_node"

RECURSIVE _evaluate(_, _, _)
RECURSIVE RecurseEach(_, _, _, _, _)

\* recurse(c), called while computing node p: nothing runs once an
\* exception is propagating.
Recurse(h, p, c, st) ==
    IF st.error # "none" THEN st
    ELSE LET out == _evaluate(h, c, st)
         IN  IF out.error # "none" THEN out
             ELSE [out EXCEPT !.uses = Append(@, [parent |-> p, child |-> c,
                                                  value |-> out.value])]

\* [recurse(c) for c in nodes]: the state after all of them, and the values.
RecurseEach(h, p, nodes, st, vals) ==
    IF Len(nodes) = 0 \/ st.error # "none"
    THEN [st |-> st, vals |-> vals]
    ELSE LET one == Recurse(h, p, Head(nodes), st)
         IN  RecurseEach(h, p, Tail(nodes), one, Append(vals, one.value))

\* The `list(...)[item]` branch of _evaluate for p = _getitem(obj, index).
EvaluateIndexed(h, p, obj, index, st) ==
    LET s1 == Recurse(h, p, index, st)
        index_val == s1.value
    IN  IF s1.error # "none" THEN s1
        ELSE IF index_val.t = "slice"
        THEN \* elem_val = obj.args[index_val], a tuple of nodes
             LET elems == PySlice(h[obj].args, index_val.v[1], index_val.v[2])
                 each == RecurseEach(h, p, elems, s1, <<>>)
                 s2 == IF each.st.error # "none" THEN each.st
                       ELSE instantiate_call(each.st, p, h[obj].func,
                                             each.vals, <<>>)
                 elem_val == s2.value
                 \* int(index_val) raises TypeError:
                 \* bindings[p] = instantiate_call(p.func, elem_val, index_val)
                 s3 == IF s2.error # "none" THEN s2
                       ELSE instantiate_call(s2, p, h[p].func,
                                             <<elem_val, index_val>>, <<>>)
             IN  IF s3.error # "none" THEN s3 ELSE Bind(s3, p, s3.value)
        ELSE IF index_val.t \in {"int", "bool"}
        THEN LET i == IF index_val.t = "bool"
                      THEN (IF index_val.v THEN 1 ELSE 0) ELSE index_val.v
                 elem == PyItem(h[obj].args, i)
                 s2 == IF elem.error # "none" THEN Fail(s1, elem.error)
                       ELSE Recurse(h, p, elem.value, s1)
             IN  IF s2.error # "none" THEN s2 ELSE Bind(s2, p, s2.value)
        ELSE Fail(s1, "TypeError")

\* The general branch of _evaluate: every child is evaluated, then a
\* variable node is looked up in bindings and any other node is called.
EvaluateApply(h, p, st) ==
    LET args == RecurseEach(h, p, h[p].args, st, <<>>)
        keys == KwKeys(h[p].keywords)
        vals == RecurseEach(h, p, KwValues(h[p].keywords), args.st, <<>>)
        kw == IF vals.st.error # "none" THEN <<>>
              ELSE [k \in DOMAIN h[p].keywords |-> vals.vals[IndexOf(keys, k)]]
        s2 == vals.st
    IN  IF s2.error # "none" THEN s2
        ELSE IF is_variable_node(h, p)
        THEN IF "name" \notin DOMAIN kw THEN Fail(s2, "AssertionError")
             ELSE IF kw["name"].t = "str" /\ kw["name"].v \in DOMAIN s2.names
             THEN [s2 EXCEPT !.value = s2.names[kw["name"].v]]
             ELSE Fail(s2, "UnboundVariable")
        ELSE LET s3 == instantiate_call(s2, p, h[p].func, args.vals, kw)
             IN  IF s3.error # "none" THEN s3 ELSE Bind(s3, p, s3.value)

\* _evaluate(p, instantiate_call, bindings)
_evaluate(h, p, st) ==
    IF Cached(st, p)
    THEN [st EXCEPT !.value = st.cache[p]]
    ELSE IF h[p].kind = "Literal"
    THEN Bind(st, p, h[p].value)
    ELSE IF h[p].func = "_getitem" /\ Len(h[p].args) # 2
    THEN \* obj, index = p.args
         Fail(st, "ValueError")
    ELSE IF h[p].func = "_getitem" /\ is_sequence_node(h, h[p].args[1])
    THEN EvaluateIndexed(h, p, h[p].args[1], h[p].args[2], st)
    ELSE EvaluateApply(h, p, st)

\* evaluate(p, **kwargs)
evaluate(h, p, kwargs) == _evaluate(h, p, EvalStart(kwargs))

\* ------------------------------------------------------------------------
\* Graph facts used to state the claims (not part of the program).
\* ------------------------------------------------------------------------

NodeIds(h) == 1..Len(h)

\* c is an immediate child of n.
IsChild(h, n, c) == c \in Range(Children(h, n))

RECURSIVE ReachFrom(_, _, _)
ReachFrom(h, frontier, seen) ==
    IF frontier \subseteq seen THEN seen
    ELSE ReachFrom(h,
             UNION {Range(Children(h, n)) : n \in frontier \ seen},
             seen \cup frontier)

\* The nodes reachable from r through args and keywords values, r included.
Reachable(h, r) == ReachFrom(h, {r}, {})

\* A directed cycle is reachable from r.
HasCycleFrom(h, r) ==
    \E n \in Reachable(h, r) :
        \E c \in Range(Children(h, n)) : n \in Reachable(h, c)

\* The immediate parents of n among the nodes reachable from r.
ParentsIn(h, r, n) == {p \in Reachable(h, r) : IsChild(h, p, n)}

\* ------------------------------------------------------------------------
\* Initial state: no node constructed, no traversal running.
\* ------------------------------------------------------------------------

HelperIdle ==
    /\ root = NoneNode
    /\ build_inverted = FALSE
    /\ visited = <<>>
    /\ to_visit = <<>>
    /\ path = UniqueStackNew
    /\ yielded = <<>>

TopoIdle ==
    /\ candidates = <<>>
    /\ dependencies = <<>>
    /\ ts_visited = {}
    /\ toposort = <<>>

\* No evaluate call has been made.
NotEvaluated == [root |-> NoneNode, names |-> <<>>, st |-> EvalStart(<<>>)]

\* The arg property has not been read.
NotBound == [heap |-> <<>>, error |-> "none", binding |-> <<>>]

\* clone has not been called.
NotCloned == [bindings |-> <<>>, error |-> "none", node |-> NoneNode]

\* replace_input has not been called.
NotReplaced ==
    [self |-> NoneNode, old_node |-> NoneNode, new_node |-> NoneNode,
     error |-> "none", node |-> NoneNode]

EvalIdle ==
    /\ handles = <<>>
    /\ result = NotEvaluated
    /\ arg_binding = NotBound
    /\ cloned = NotCloned
    /\ replaced = NotReplaced
    /\ lifted_value = NoneVal

Init ==
    /\ heap = <<>>
    /\ mutations = 0
    /\ phase = "build"
    /\ raised = "none"
    /\ HelperIdle
    /\ TopoIdle
    /\ EvalIdle

\* ------------------------------------------------------------------------
\* Construction and mutation of nodes.
\* ------------------------------------------------------------------------

\* Literal(v)
BuildLiteral(limit) ==
    /\ phase = "build"
    /\ Len(heap) < limit
    /\ heap' = Append(heap, Literal(IntVal(0)))
    /\ UNCHANGED <<mutations, phase, raised>>
    /\ UNCHANGED helperVars
    /\ UNCHANGED topoVars
    /\ UNCHANGED evalVars

\* PartialPlus(f, *args, **kwargs) over already constructed nodes.
BuildPartialPlus(limit) ==
    /\ phase = "build"
    /\ Len(heap) < limit
    /\ \E args \in SeqsUpTo(NodeIds(heap), MaxArgs) :
       \E ks \in SUBSET KwNames :
       \E kwargs \in [ks -> NodeIds(heap)] :
           heap' = Append(heap, PartialPlus("f", args, kwargs))
    /\ UNCHANGED <<mutations, phase, raised>>
    /\ UNCHANGED helperVars
    /\ UNCHANGED topoVars
    /\ UNCHANGED evalVars

NewLiteral == BuildLiteral(MaxNodes)
NewPartialPlus == BuildPartialPlus(MaxNodes)
DagLiteral == BuildLiteral(MaxDagNodes)
DagPartialPlus == BuildPartialPlus(MaxDagNodes)

\* node.append_arg(arg)
AppendArg ==
    /\ phase = "build"
    /\ mutations < MaxMutations
    /\ \E n \in NodeIds(heap) : \E arg \in NodeIds(heap) :
        /\ heap[n].kind = "PartialPlus"
        /\ heap' = append_arg(heap, n, arg)
    /\ mutations' = mutations + 1
    /\ UNCHANGED <<phase, raised>>
    /\ UNCHANGED helperVars
    /\ UNCHANGED topoVars
    /\ UNCHANGED evalVars

\* node.keywords[k] = v
SetKeyword ==
    /\ phase = "build"
    /\ mutations < MaxMutations
    /\ \E n \in NodeIds(heap) : \E k \in KwNames : \E v \in NodeIds(heap) :
        /\ heap[n].kind = "PartialPlus"
        /\ heap' = set_keyword(heap, n, k, v)
    /\ mutations' = mutations + 1
    /\ UNCHANGED <<phase, raised>>
    /\ UNCHANGED helperVars
    /\ UNCHANGED topoVars
    /\ UNCHANGED evalVars

\* ------------------------------------------------------------------------
\* _traversal_helper.
\* ------------------------------------------------------------------------

\* The helper's set-up: visited = {}, path.push(None),
\* to_visit.append((None, root)).
HelperStart(r, inverted) ==
    /\ root' = r
    /\ build_inverted' = inverted
    /\ visited' = <<>>
    /\ to_visit' = << <<NoneNode, r>> >>
    /\ path' = StackPush(UniqueStackNew, NoneNode)
    /\ yielded' = <<>>

\* depth_first_traversal(root)
StartDepthFirst ==
    /\ phase = "build"
    /\ \E r \in NodeIds(heap) : HelperStart(r, FALSE)
    /\ phase' = "dfs"
    /\ UNCHANGED <<raised>>
    /\ UNCHANGED graphVars
    /\ UNCHANGED topoVars
    /\ UNCHANGED evalVars

\* topological_sort(root): candidates = deque(_traversal_helper(root, True))
StartTopological ==
    /\ phase = "build"
    /\ \E r \in NodeIds(heap) : HelperStart(r, TRUE)
    /\ phase' = "topo_dfs"
    /\ UNCHANGED <<raised>>
    /\ UNCHANGED graphVars
    /\ UNCHANGED topoVars
    /\ UNCHANGED evalVars

\* visited with node first recorded: visited.setdefault(node, set()).add(parent)
\* under build_inverted, visited[node] = True otherwise.
VisitedRecord(v, inverted, node, parent) ==
    [n \in (DOMAIN v) \cup {node} |->
        IF n = node THEN (IF inverted THEN {parent} ELSE TRUE) ELSE v[n]]

\* A revisit that records no parent.
VisitedAddParentDropped(v, node, parent) == v

\* visited[node].add(parent)
VisitedAddParent(v, node, parent) == [v EXCEPT ![node] = @ \cup {parent}]

\* An extend that enumerates the positional children only.
ToVisitExtendArgsOnly(tv, h, node) ==
    tv \o [i \in 1..Len(h[node].args) |-> <<node, h[node].args[i]>>]

\* to_visit.extend((node, c) for c in children)
ToVisitExtend(tv, h, node) ==
    tv \o [i \in 1..Len(Children(h, node)) |-> <<node, Children(h, node)[i]>>]

\* One iteration of the helper's while loop.
HelperStep ==
    /\ phase \in {"dfs", "topo_dfs"}
    /\ Len(to_visit) > 0
    /\ LET parent == to_visit[Len(to_visit)][1]
           node   == to_visit[Len(to_visit)][2]
           rest   == SubSeq(to_visit, 1, Len(to_visit) - 1)
           popped == StackPopUntil(path, parent)
           pushed == StackPush(popped, node)
       IN  IF popped.error # "none"
           THEN \* ValueError("never found sentinel element")
                /\ raised' = "SentinelNotFound"
                /\ phase' = "done"
                /\ path' = popped
                /\ to_visit' = rest
                /\ UNCHANGED <<visited, yielded>>
           ELSE IF pushed.error # "none"
           THEN \* ValueError("call graph contains a directed cycle")
                /\ raised' = "CycleError"
                /\ phase' = "done"
                /\ path' = pushed
                /\ to_visit' = rest
                /\ UNCHANGED <<visited, yielded>>
           ELSE /\ path' = pushed
                /\ UNCHANGED <<raised, phase>>
                /\ IF node \notin DOMAIN visited
                   THEN /\ visited' = VisitedRecord(visited, build_inverted,
                                                    node, parent)
                        /\ yielded' = Append(yielded, node)
                        /\ to_visit' =
                             IF heap[node].kind = "PartialPlus"
                             THEN ToVisitExtend(rest, heap, node)
                             ELSE rest
                   ELSE /\ visited' =
                             IF build_inverted
                             THEN VisitedAddParent(visited, node, parent)
                             ELSE visited
                        /\ to_visit' = rest
                        /\ UNCHANGED yielded
    /\ UNCHANGED <<root, build_inverted>>
    /\ UNCHANGED graphVars
    /\ UNCHANGED topoVars
    /\ UNCHANGED evalVars

\* depth_first_traversal: the loop ends and the generator is exhausted.
DepthFirstFinish ==
    /\ phase = "dfs"
    /\ Len(to_visit) = 0
    /\ phase' = "done"
    /\ UNCHANGED <<raised>>
    /\ UNCHANGED graphVars
    /\ UNCHANGED helperVars
    /\ UNCHANGED topoVars
    /\ UNCHANGED evalVars

\* ------------------------------------------------------------------------
\* topological_sort.
\* ------------------------------------------------------------------------

\* The helper's loop ends: visited[root].remove(None); yield visited.  Then
\* dependencies = candidates.pop() and visited = set().
TopologicalCollect ==
    /\ phase = "topo_dfs"
    /\ Len(to_visit) = 0
    /\ visited' = [visited EXCEPT ![root] = @ \ {NoneNode}]
    /\ candidates' = yielded
    /\ dependencies' = visited'
    /\ ts_visited' = {}
    /\ toposort' = <<>>
    /\ phase' = "topo"
    /\ UNCHANGED <<raised, root, build_inverted, to_visit, path, yielded>>
    /\ UNCHANGED graphVars
    /\ UNCHANGED evalVars

\* One iteration of topological_sort's while loop.
TopologicalStep ==
    /\ phase = "topo"
    /\ Len(candidates) > 0
    /\ LET proposed == Head(candidates)
       IN  IF dependencies[proposed] \ ts_visited # {}
           THEN /\ candidates' = Append(Tail(candidates), proposed)
                /\ UNCHANGED <<ts_visited, toposort>>
           ELSE /\ candidates' = Tail(candidates)
                /\ ts_visited' = ts_visited \cup {proposed}
                /\ toposort' = Append(toposort, proposed)
    /\ UNCHANGED <<phase, raised, dependencies>>
    /\ UNCHANGED graphVars
    /\ UNCHANGED helperVars
    /\ UNCHANGED evalVars

\* topological_sort: the worklist is empty and the generator is exhausted.
TopologicalFinish ==
    /\ phase = "topo"
    /\ Len(candidates) = 0
    /\ phase' = "done"
    /\ UNCHANGED <<raised>>
    /\ UNCHANGED graphVars
    /\ UNCHANGED helperVars
    /\ UNCHANGED topoVars
    /\ UNCHANGED evalVars

Next ==
    \/ NewLiteral
    \/ NewPartialPlus
    \/ AppendArg
    \/ SetKeyword
    \/ StartDepthFirst
    \/ StartTopological
    \/ HelperStep
    \/ DepthFirstFinish
    \/ TopologicalCollect
    \/ TopologicalStep
    \/ TopologicalFinish

\* Graphs built by constructors, then mutated, then traversed.
Spec == Init /\ [][Next]_vars

NextDag ==
    \/ DagLiteral
    \/ DagPartialPlus
    \/ StartDepthFirst
    \/ StartTopological
    \/ HelperStep
    \/ DepthFirstFinish
    \/ TopologicalCollect
    \/ TopologicalStep
    \/ TopologicalFinish

\* Graphs built by the constructors alone, then traversed.
SpecDag == Init /\ [][NextDag]_vars

\* The steps a consumer that exhausts the generator keeps taking.
Consume ==
    \/ HelperStep
    \/ DepthFirstFinish
    \/ TopologicalCollect
    \/ TopologicalStep
    \/ TopologicalFinish

\* list(depth_first_traversal(root)) for the node built last.  A traversal
\* touches only the nodes reachable from its root, which the constructors
\* built before it.
StartDepthFirstLast ==
    /\ phase = "build"
    /\ Len(heap) > 0
    /\ HelperStart(Len(heap), FALSE)
    /\ phase' = "dfs"
    /\ UNCHANGED <<raised>>
    /\ UNCHANGED graphVars
    /\ UNCHANGED topoVars
    /\ UNCHANGED evalVars

\* list(topological_sort(root)) for the node built last.
StartTopologicalLast ==
    /\ phase = "build"
    /\ Len(heap) > 0
    /\ HelperStart(Len(heap), TRUE)
    /\ phase' = "topo_dfs"
    /\ UNCHANGED <<raised>>
    /\ UNCHANGED graphVars
    /\ UNCHANGED topoVars
    /\ UNCHANGED evalVars

NextDagLast ==
    \/ DagLiteral
    \/ DagPartialPlus
    \/ StartDepthFirstLast
    \/ StartTopologicalLast
    \/ HelperStep
    \/ DepthFirstFinish
    \/ TopologicalCollect
    \/ TopologicalStep
    \/ TopologicalFinish

\* Graphs built by the constructors alone, then traversed from the node
\* built last by a consumer that fully consumes the traversal.
SpecDagFair == Init /\ [][NextDagLast]_vars /\ WF_vars(Consume)

\* ------------------------------------------------------------------------
\* Building expression graphs with the builders, and evaluating them.
\* ------------------------------------------------------------------------

\* The builder call `call` returned node b.node of heap b.heap.
Returned(call, b) ==
    /\ heap' = b.heap
    /\ handles' = Append(handles, [call |-> call, node |-> b.node])
    /\ UNCHANGED <<mutations, phase, raised, result,
                   arg_binding, cloned, replaced, lifted_value>>
    /\ UNCHANGED helperVars
    /\ UNCHANGED topoVars

\* The nodes earlier builder calls returned, as host values.
Handles == {NodeRef(handles[i].node) : i \in 1..Len(handles)}

\* The node built last.
LastBuilt == handles[Len(handles)].node

\* p = partial(f) for a callable without arguments.
CallPartial ==
    /\ phase = "build"
    /\ Len(handles) < MaxCalls
    /\ \E f \in {"Foo", "dont_eval"} : Returned("partial", partial(heap, f, <<>>, <<>>))

\* as_partialplus of a native list or tuple of integers and nodes.
CallAsPartialPlus ==
    /\ phase = "build"
    /\ Len(handles) < MaxCalls
    /\ \E t \in {"list", "tuple"} :
       \E elems \in SeqsUpTo({IntVal(7)} \cup Handles, MaxElems) :
           Returned("as_partialplus",
                    as_partialplus(heap, [t |-> t, v |-> elems]))

\* node[item] for an integer or a slice.
CallGetItem ==
    /\ phase = "build"
    /\ Len(handles) < MaxCalls
    /\ \E self \in Handles :
       \E item \in {IntVal(0), IntVal(1), SliceVal(0, 1), SliceVal(1, 2)} :
           Returned("__getitem__", getitem(heap, self.v, item))

\* variable(name, int, default=...)
CallVariable ==
    /\ phase = "build"
    /\ Len(handles) < MaxCalls
    /\ \E default \in {NoneVal} \cup Handles :
           Returned("variable", variable(heap, StrVal("x"), TypeVal("int"),
                                         default, <<>>))

\* evaluate(p, **kwargs) of the node built last.
Evaluate ==
    /\ phase = "build"
    /\ Len(handles) > 0
    /\ \E names \in {<<>>, [n \in {"x"} |-> IntVal(5)]} :
         result' = [root |-> LastBuilt, names |-> names,
                    st |-> evaluate(heap, LastBuilt, names)]
    /\ phase' = "evaluated"
    /\ UNCHANGED <<handles, raised, arg_binding, cloned, replaced,
                   lifted_value>>
    /\ UNCHANGED graphVars
    /\ UNCHANGED helperVars
    /\ UNCHANGED topoVars

NextEval ==
    \/ CallPartial
    \/ CallAsPartialPlus
    \/ CallGetItem
    \/ CallVariable
    \/ Evaluate

\* Expression graphs built by the builders, then evaluated.
SpecEval == Init /\ [][NextEval]_vars

\* ------------------------------------------------------------------------
\* Arithmetic on two deferred integers.
\* ------------------------------------------------------------------------

\* partial(int, a)
CallPartialInt ==
    /\ phase = "build"
    /\ Len(handles) < 2
    /\ \E a \in (0 - MaxNegInt)..MaxInt :
           Returned("partial", partial(heap, "int", <<IntVal(a)>>, <<>>))

\* lhs <op> rhs for the two operands built.
CallBinaryMethod ==
    /\ phase = "build"
    /\ Len(handles) = 2
    /\ \E method \in BinaryMethods :
           Returned(method, BinaryMethod(heap, method, handles[1].node,
                                         NodeRef(handles[2].node)))

NextArith ==
    \/ CallPartialInt
    \/ CallBinaryMethod
    \/ Evaluate

\* Two deferred integers, one binary operator, then evaluate.
SpecArith == Init /\ [][NextArith]_vars

\* ------------------------------------------------------------------------
\* The parameter binder.
\* ------------------------------------------------------------------------

\* The functions handed to partial, by their def line: positional
\* parameter names, *name, **name ("None" when not declared), defaults.
Def(params, star, starstar, defaults) ==
    [params |-> params, star |-> star, starstar |-> starstar,
     defaults |-> defaults]

Functions ==
    {"f()", "f(a)", "f(a, b)", "f(a, b=None)", "f(a=1, b=2)", "f(a, *b)",
     "f(a, **b)", "f(a, *u, **b)", "f(a, b=None, *u, **k)", "f(*u)",
     "f(a, b, k=2)"}

Definition(fn) ==
    CASE fn = "f()"          -> Def(<<>>, "None", "None", <<>>)
      [] fn = "f(a)"         -> Def(<<"a">>, "None", "None", <<>>)
      [] fn = "f(a, b)"      -> Def(<<"a", "b">>, "None", "None", <<>>)
      [] fn = "f(a, b=None)" -> Def(<<"a", "b">>, "None", "None", <<NoneVal>>)
      [] fn = "f(a=1, b=2)"  ->
             Def(<<"a", "b">>, "None", "None", <<IntVal(1), IntVal(2)>>)
      [] fn = "f(a, *b)"     -> Def(<<"a">>, "b", "None", <<>>)
      [] fn = "f(a, **b)"    -> Def(<<"a">>, "None", "b", <<>>)
      [] fn = "f(a, *u, **b)" -> Def(<<"a">>, "u", "b", <<>>)
      [] fn = "f(a, b=None, *u, **k)" ->
             Def(<<"a", "b">>, "u", "k", <<NoneVal>>)
      [] fn = "f(*u)"        -> Def(<<>>, "u", "None", <<>>)
      [] fn = "f(a, b, k=2)" ->
             Def(<<"a", "b", "k">>, "None", "None", <<IntVal(2)>>)

\* fn.__code__ and fn.__defaults__ as the host compiles the def line:
\* co_varnames holds the parameters, then *name, then **name, then locals.
Code(fn) ==
    LET def == Definition(fn)
    IN  [co_argcount |-> Len(def.params),
         co_varargs |-> def.star # "None",
         co_varkeywords |-> def.starstar # "None",
         co_varnames |-> def.params
                         \o (IF def.star # "None" THEN <<def.star>> ELSE <<>>)
                         \o (IF def.starstar # "None"
                             THEN <<def.starstar>> ELSE <<>>)
                         \o <<"tmp">>,
         defaults |-> def.defaults]

\* _extract_param_names(fn)
extract_param_names(fn) ==
    LET code == Code(fn)
        extra_args_ok == code.co_varargs
        extra_kwargs_ok == code.co_varkeywords
        expected_num_args == code.co_argcount
                             + (IF extra_args_ok THEN 1 ELSE 0)
                             + (IF extra_kwargs_ok THEN 1 ELSE 0)
        param_names == SubSeq(code.co_varnames, 1, expected_num_args)
    IN  [pos_params |-> SubSeq(param_names, 1, code.co_argcount),
         args_param |-> IF extra_args_ok
                        THEN param_names[code.co_argcount + 1] ELSE "None",
         kwargs_param |-> IF extra_kwargs_ok
                          THEN param_names[code.co_argcount
                                           + (IF extra_args_ok THEN 1 ELSE 0)
                                           + 1]
                          ELSE "None"]

\* d[k] = v on a dict d.
SetItem(d, k, v) ==
    [x \in DOMAIN d \cup {k} |-> IF x = k THEN v ELSE d[x]]

\* A dict of keyword names to nodes, as a host value.
Mapping(m) == [t |-> "mapping", v |-> m]

\* The MissingArgument class object.
MissingArgument == [t |-> "class", v |-> "MissingArgument"]

RECURSIVE BindNamed(_, _, _, _, _)

\* The loop of _bind_parameters over named_args.iteritems().
BindNamed(names, params, named_args, kwargs_param, binding) ==
    IF Len(names) = 0 THEN [error |-> "none", binding |-> binding]
    ELSE LET aname == Head(names)
             aval == NodeRef(named_args[aname])
         IN  IF aname \in Range(params) /\ aname \notin DOMAIN binding
             THEN BindNamed(Tail(names), params, named_args, kwargs_param,
                            SetItem(binding, aname, aval))
             ELSE IF aname \in DOMAIN binding /\ aname # kwargs_param
             THEN [error |-> "DuplicateArgument", binding |-> binding]
             ELSE IF kwargs_param # "None"
             THEN BindNamed(Tail(names), params, named_args, kwargs_param,
                            SetItem(binding, kwargs_param,
                                    Mapping(SetItem(binding[kwargs_param].v,
                                                    aname, aval))))
             ELSE [error |-> "UnrecognizedKeyword", binding |-> binding]

\* Keyword arguments accepted without being looked at.
bind_parameters_unchecked(params, named_args, kwargs_param, binding) ==
    [error |-> "none", binding |-> binding]

\* _bind_parameters(params, named_args, kwargs_param, binding)
bind_parameters(params, named_args, kwargs_param, binding) ==
    BindNamed(KwKeys(named_args), params, named_args, kwargs_param,
              IF kwargs_param # "None"
              THEN SetItem(binding, kwargs_param, Mapping(<<>>))
              ELSE binding)

\* Every parameter a default could go to, in place of the last ones.
DefaultParamsLeftAligned(params, defaults) == params

\* params[-len(defaults):]
DefaultParams(params, defaults) ==
    IF Len(defaults) = 0 THEN params
    ELSE SubSeq(params,
                IF Len(defaults) >= Len(params) THEN 1
                ELSE Len(params) - Len(defaults) + 1,
                Len(params))

RECURSIVE FillDefaults(_, _, _, _)

\* for param_i, default_i in izip(...): binding.setdefault(param_i,
\* Literal(default_i)); the Literal is made whether or not it is kept.
FillDefaults(h, names, defaults, binding) ==
    IF Len(names) = 0 \/ Len(defaults) = 0
    THEN [heap |-> h, binding |-> binding]
    ELSE LET h2 == Append(h, Literal(Head(defaults)))
         IN  FillDefaults(h2, Tail(names), Tail(defaults),
                          IF Head(names) \in DOMAIN binding THEN binding
                          ELSE SetItem(binding, Head(names),
                                       NodeRef(Len(h2))))

\* binding[args_param] = pos_args[code.co_argcount:]
BindOverflow(pos_args, co_argcount, args_param) ==
    IF args_param = "None" THEN <<>>
    ELSE SetItem(<<>>, args_param,
                 TupleVal([i \in 1..(IF Len(pos_args) > co_argcount
                                     THEN Len(pos_args) - co_argcount
                                     ELSE 0) |->
                              NodeRef(pos_args[co_argcount + i])]))

\* for param_i, arg_i in izip(params, pos_args): binding[param_i] = arg_i
BindPositional(params, pos_args, binding) ==
    LET zipped == IF Len(params) < Len(pos_args)
                  THEN Len(params) ELSE Len(pos_args)
    IN  [x \in DOMAIN binding \cup {params[i] : i \in 1..zipped} |->
            IF \E i \in 1..zipped : params[i] = x
            THEN NodeRef(pos_args[CHOOSE i \in 1..zipped : params[i] = x])
            ELSE binding[x]]

\* binding.update(izip(missing_names, repeat(MissingArgument)))
MarkMissing(params, binding) ==
    [x \in DOMAIN binding \cup Range(params) |->
        IF x \in DOMAIN binding THEN binding[x] ELSE MissingArgument]

\* The part of _param_assignment after the keyword arguments are bound.
FinishAssignment(h, params, names, keyed, defaults) ==
    IF keyed.error # "none"
    THEN [heap |-> h, error |-> keyed.error, binding |-> <<>>]
    ELSE IF Cardinality(DOMAIN keyed.binding)
            > Len(params)
              + (IF names.kwargs_param # "None" THEN 1 ELSE 0)
              + (IF names.args_param # "None" THEN 1 ELSE 0)
    THEN [heap |-> h, error |-> "AssertionError", binding |-> <<>>]
    ELSE LET filled == FillDefaults(h, DefaultParams(params, defaults),
                                    defaults, keyed.binding)
         IN  [heap |-> filled.heap, error |-> "none",
              binding |-> MarkMissing(params, filled.binding)]

\* _param_assignment(pp)
param_assignment(h, pp) ==
    LET code == Code(h[pp].func)
        names == extract_param_names(h[pp].func)
    IN  IF Len(h[pp].args) > code.co_argcount /\ names.args_param = "None"
        THEN [heap |-> h, error |-> "TooManyPositional", binding |-> <<>>]
        ELSE FinishAssignment(
                 h, names.pos_params, names,
                 bind_parameters(
                     names.pos_params, h[pp].keywords, names.kwargs_param,
                     BindPositional(names.pos_params, h[pp].args,
                                    BindOverflow(h[pp].args, code.co_argcount,
                                                 names.args_param))),
                 code.defaults)

\* The keyword arguments a call to partial may carry, and their values.
SuppliedKeywords == {"a", "b", "u", "foo"}
KeywordValue(k) ==
    CASE k = "a" -> IntVal(3)
      [] k = "b" -> IntVal(5)
      [] k = "u" -> IntVal(6)
      [] k = "foo" -> IntVal(1)

\* pp = partial(f, 0, 1, ..., **keywords)
CallPartialFn ==
    /\ phase = "build"
    /\ handles = <<>>
    /\ \E fn \in Functions :
       \E n \in 0..MaxPositional :
       \E keys \in SUBSET SuppliedKeywords :
           Returned("partial",
                    partial(heap, fn, [i \in 1..n |-> IntVal(i - 1)],
                            [k \in keys |-> KeywordValue(k)]))

\* pp.arg
Arg ==
    /\ phase = "build"
    /\ Len(handles) = 1
    /\ arg_binding' = param_assignment(heap, LastBuilt)
    /\ heap' = arg_binding'.heap
    /\ phase' = "bound"
    /\ UNCHANGED <<mutations, raised, handles, result, cloned, replaced,
                   lifted_value>>
    /\ UNCHANGED helperVars
    /\ UNCHANGED topoVars

NextBind ==
    \/ CallPartialFn
    \/ Arg

\* One call of partial on a function, then its arg property.
SpecBind == Init /\ [][NextBind]_vars

\* ------------------------------------------------------------------------
\* Node.clone.
\* ------------------------------------------------------------------------

RECURSIVE CloneEach(_, _, _)

\* The loop of clone over nodes: a fresh Literal for a Literal, a fresh
\* PartialPlus over the copies of the children otherwise.
CloneEach(h, nodes, bindings) ==
    IF Len(nodes) = 0
    THEN [heap |-> h, bindings |-> bindings, error |-> "none"]
    ELSE LET node == Head(nodes)
         IN  IF h[node].kind = "Literal"
             THEN LET h2 == Append(h, Literal(h[node].value))
                  IN  CloneEach(h2, Tail(nodes),
                                SetItem(bindings, node, Len(h2)))
             ELSE IF \E c \in Range(Children(h, node)) :
                         c \notin DOMAIN bindings
             THEN [heap |-> h, bindings |-> bindings, error |-> "KeyError"]
             ELSE LET args == [i \in 1..Len(h[node].args) |->
                                  bindings[h[node].args[i]]]
                      keywords == [k \in DOMAIN h[node].keywords |->
                                      bindings[h[node].keywords[k]]]
                      h2 == Append(h, PartialPlus(h[node].func, args,
                                                  keywords))
                  IN  CloneEach(h2, Tail(nodes),
                                SetItem(bindings, node, Len(h2)))

\* nodes[-1] for nodes = reversed(list(...)): reversed returns an iterator,
\* and an iterator has no __getitem__.
ReversedLast(nodes) == Raises("TypeError")

\* The part of clone after list(topological_sort(self)) is exhausted.
CloneLoop(h, order) ==
    LET copied == CloneEach(h, Reverse(order), <<>>)
        last == ReversedLast(Reverse(order))
    IN  IF copied.error # "none"
        THEN [heap |-> copied.heap, bindings |-> copied.bindings,
              error |-> copied.error, node |-> NoneNode]
        ELSE IF last.error # "none"
        THEN [heap |-> copied.heap, bindings |-> copied.bindings,
              error |-> last.error, node |-> NoneNode]
        ELSE [heap |-> copied.heap, bindings |-> copied.bindings,
              error |-> "none", node |-> copied.bindings[last.value]]

CloneLiteral == BuildLiteral(MaxCloneNodes)
ClonePartialPlus == BuildPartialPlus(MaxCloneNodes)

\* root.clone(), from the point where its topological_sort is exhausted.
CloneFinish ==
    /\ phase = "topo"
    /\ Len(candidates) = 0
    /\ \E c \in {CloneLoop(heap, toposort)} :
         /\ heap' = c.heap
         /\ cloned' = [bindings |-> c.bindings, error |-> c.error,
                       node |-> c.node]
    /\ phase' = "cloned"
    /\ UNCHANGED <<mutations, raised, handles, result, arg_binding,
                   replaced, lifted_value>>
    /\ UNCHANGED helperVars
    /\ UNCHANGED topoVars

NextClone ==
    \/ CloneLiteral
    \/ ClonePartialPlus
    \/ StartTopological
    \/ HelperStep
    \/ TopologicalCollect
    \/ TopologicalStep
    \/ CloneFinish

\* Graphs built by the constructors alone, then cloned from any root.
SpecClone == Init /\ [][NextClone]_vars

\* ------------------------------------------------------------------------
\* PartialPlus.replace_input.
\* ------------------------------------------------------------------------

\* f(..., **pairs) for a list of (key, value) pairs: the host takes only a
\* mapping after **, so the call is never made.
CallWithStarStarList(h, f, args, pairs) ==
    [heap |-> h, error |-> "TypeError", node |-> NoneNode]

\* self.replace_input(old_node, new_node)
replace_input(h, self, old_node, new_node) ==
    LET new_args == [i \in 1..Len(h[self].args) |->
                        IF h[self].args[i] = old_node THEN new_node
                        ELSE h[self].args[i]]
        keys == KwKeys(h[self].keywords)
        new_keywords == [i \in 1..Len(keys) |->
                            IF h[self].keywords[keys[i]] = old_node
                            THEN <<keys[i], new_node>>
                            ELSE <<keys[i], h[self].keywords[keys[i]]>>]
    IN  CallWithStarStarList(h, h[self].func, new_args, new_keywords)

\* n.replace_input(old, new) for nodes of the graph.
ReplaceInput ==
    /\ phase = "build"
    /\ \E self \in NodeIds(heap) :
       \E old_node \in NodeIds(heap) :
       \E new_node \in NodeIds(heap) :
         /\ heap[self].kind = "PartialPlus"
         /\ \E r \in {replace_input(heap, self, old_node, new_node)} :
              /\ heap' = r.heap
              /\ replaced' = [self |-> self, old_node |-> old_node,
                              new_node |-> new_node, error |-> r.error,
                              node |-> r.node]
    /\ phase' = "replaced"
    /\ UNCHANGED <<mutations, raised, handles, result, arg_binding, cloned,
                   lifted_value>>
    /\ UNCHANGED helperVars
    /\ UNCHANGED topoVars

NextReplace ==
    \/ CloneLiteral
    \/ ClonePartialPlus
    \/ ReplaceInput

\* Graphs built by the constructors alone, then one replace_input call.
SpecReplace == Init /\ [][NextReplace]_vars

\* ------------------------------------------------------------------------
\* Lifting nested host values.
\* ------------------------------------------------------------------------

\* Scalars and pending calls.
HostLeaves ==
    {IntVal(7),
     PendingCall("int", <<IntVal(3)>>, <<>>),
     PendingCall("add", <<IntVal(2)>>, [k \in {"y"} |-> IntVal(3)])}

\* The keys of the native mappings.
HostKeys == {IntVal(5), TupleVal(<<IntVal(1)>>)}

\* Lists and tuples of at most n elements, and mappings, over the values
\* of S.
HostContainers(S, n) ==
    {ListVal(s) : s \in SeqsUpTo(S, n)}
    \cup {TupleVal(s) : s \in SeqsUpTo(S, n)}
    \cup {DictVal(<<>>)}
    \cup {DictVal(<<<<k, x>>>>) : k \in HostKeys, x \in S}

\* Host values nested two levels deep over the leaves S, and a mapping
\* with both keys.
HostValues(S) ==
    HostContainers(S \cup HostContainers(S, MaxElems), MaxOuterElems)
    \cup {DictVal(<<<<IntVal(5), x>>, <<TupleVal(<<IntVal(1)>>), y>>>>) :
             x \in S, y \in HostContainers(S, MaxElems)}

\* as_partialplus(v) for a nested host value v.
CallAsPartialPlusNested ==
    /\ phase = "build"
    /\ handles = <<>>
    /\ \E v \in HostValues(HostLeaves) :
         /\ heap' = as_partialplus(heap, v).heap
         /\ handles' = <<[call |-> "as_partialplus",
                          node |-> as_partialplus(heap, v).node]>>
         /\ lifted_value' = v
    /\ UNCHANGED <<mutations, phase, raised, result, arg_binding, cloned,
                   replaced>>
    /\ UNCHANGED helperVars
    /\ UNCHANGED topoVars

NextLift ==
    \/ CallAsPartialPlusNested
    \/ Evaluate

\* One nested host value lifted, then evaluated.
SpecLift == Init /\ [][NextLift]_vars

\* ------------------------------------------------------------------------
\* Unary operators on a deferred integer.
\* ------------------------------------------------------------------------

UnaryMethods == {"__neg__", "__pos__", "__invert__"}

\* PartialPlus.__neg__, __pos__ and __invert__.
UnaryMethod(h, method, self) ==
    CASE method = "__neg__" ->
            partial(h, "_unary_arithmetic", <<NodeRef(self), StrVal("-")>>,
                    <<>>)
      [] method = "__pos__" ->
            partial(h, "_unary_arithmetic", <<NodeRef(self), StrVal("+")>>,
                    <<>>)
      [] method = "__invert__" ->
            partial(h, "abs", <<NodeRef(self)>>, <<>>)

\* <op> operand for the operand built last.
CallUnaryMethod ==
    /\ phase = "build"
    /\ Len(handles) > 0
    /\ handles[Len(handles)].call = "partial"
    /\ \E method \in UnaryMethods :
           Returned(method, UnaryMethod(heap, method, LastBuilt))

NextUnary ==
    \/ CallPartialInt
    \/ CallUnaryMethod
    \/ Evaluate

\* Deferred integers, one unary operator on the last, then evaluate.
SpecUnary == Init /\ [][NextUnary]_vars

\* ------------------------------------------------------------------------
\* append_arg and extend_args with arbitrary arguments.
\* ------------------------------------------------------------------------

\* A host object that is not a Node, held by identity like the nodes.
HostObject(value) ==
    [kind |-> "Host", func |-> "None", args |-> <<>>, keywords |-> <<>>,
     value |-> value]

\* PartialPlus.extend_args(args): self._args = self._args + tuple(args)
extend_args(h, n, args) == [h EXCEPT ![n].args = @ \o args]

\* node.append_arg(3): the argument is a host integer.
AppendArgHost ==
    /\ phase = "build"
    /\ \E n \in NodeIds(heap) :
        /\ heap[n].kind = "PartialPlus"
        /\ heap' = append_arg(Append(heap, HostObject(IntVal(3))), n,
                              Len(heap) + 1)
    /\ mutations' = mutations + 1
    /\ phase' = "mutated"
    /\ UNCHANGED <<raised>>
    /\ UNCHANGED helperVars
    /\ UNCHANGED topoVars
    /\ UNCHANGED evalVars

\* node.extend_args(args) for a sequence of nodes.
ExtendArgs ==
    /\ phase = "build"
    /\ mutations < MaxMutations
    /\ \E n \in NodeIds(heap) :
       \E args \in SeqsUpTo(NodeIds(heap), MaxArgs) :
        /\ heap[n].kind = "PartialPlus"
        /\ heap' = extend_args(heap, n, args)
    /\ mutations' = mutations + 1
    /\ UNCHANGED <<phase, raised>>
    /\ UNCHANGED helperVars
    /\ UNCHANGED topoVars
    /\ UNCHANGED evalVars

\* node.extend_args([arg, 3]): the last argument is a host integer.
ExtendArgsHost ==
    /\ phase = "build"
    /\ \E n \in NodeIds(heap) :
       \E args \in SeqsUpTo(NodeIds(heap), 1) :
        /\ heap[n].kind = "PartialPlus"
        /\ heap' = extend_args(Append(heap, HostObject(IntVal(3))), n,
                               Append(args, Len(heap) + 1))
    /\ mutations' = mutations + 1
    /\ phase' = "mutated"
    /\ UNCHANGED <<raised>>
    /\ UNCHANGED helperVars
    /\ UNCHANGED topoVars
    /\ UNCHANGED evalVars

NextMutate ==
    \/ CloneLiteral
    \/ ClonePartialPlus
    \/ AppendArg
    \/ ExtendArgs
    \/ AppendArgHost
    \/ ExtendArgsHost

\* Graphs built by the constructors, then mutated through append_arg and
\* extend_args.
SpecMutate == Init /\ [][NextMutate]_vars

\* ------------------------------------------------------------------------
\* Claims about the traversals.
\* ------------------------------------------------------------------------

NoDuplicates(s) == \A i, j \in 1..Len(s) : s[i] = s[j] => i = j

Before(s, a, b) == IndexOf(s, a) > 0 /\ IndexOf(s, a) < IndexOf(s, b)

\* C1: when a directed cycle is reachable from the root, a fully consumed
\* depth_first_traversal(root) and a fully consumed topological_sort(root)
\* both end with the cycle error.
C1_CycleRaises ==
    (phase = "done" /\ HasCycleFrom(heap, root)) => raised = "CycleError"

\* C1 witness: a topological sort that raised on a back-edge longer than a
\* self-loop, after the helper had yielded three nodes.
C1_Witness ==
    /\ phase = "done"
    /\ build_inverted
    /\ raised = "CycleError"
    /\ Len(yielded) = 3
    /\ \A n \in NodeIds(heap) : ~IsChild(heap, n, n)

C3_DepthFirstOrder ==
    (phase = "done" /\ ~build_inverted /\ ~HasCycleFrom(heap, root)) =>
        /\ raised = "none"
        /\ yielded[1] = root
        /\ Range(yielded) = Reachable(heap, root)
        /\ NoDuplicates(yielded)
        /\ \A n \in Range(yielded) \ {root} :
             \E p \in ParentsIn(heap, root, n) : Before(yielded, p, n)

\* C3 witness: a finished depth-first traversal over a node that has two
\* distinct parents, one of them reached through a keyword.
C3_Witness ==
    /\ phase = "done"
    /\ ~build_inverted
    /\ raised = "none"
    /\ \E n \in Range(yielded) :
         /\ Cardinality(ParentsIn(heap, root, n)) >= 2
         /\ \E p \in ParentsIn(heap, root, n) :
              n \in Range(KwValues(heap[p].keywords))


\* ------------------------------------------------------------------------
\* Claims about the evaluator.
\* ------------------------------------------------------------------------

Evaluated == phase = "evaluated"

\* The number of times the func of node n was invoked to compute n.
Invocations(n) ==
    Cardinality({i \in 1..Len(result.st.calls) :
                    /\ result.st.calls[i].node = n
                    /\ result.st.calls[i].func = heap[n].func})

\* The nodes on whose behalf a func was invoked.
InvokedNodes == {result.st.calls[i].node : i \in 1..Len(result.st.calls)}

\* C4: within one evaluate call the func of an Apply node is invoked at most
\* once to compute it, and every parent that asks for a node is handed the
\* same value (for a Foo instance, the same object).
C4_InvokedOnce ==
    Evaluated =>
        /\ \A n \in NodeIds(heap) :
             heap[n].kind = "PartialPlus" => Invocations(n) <= 1
        /\ \A i, j \in 1..Len(result.st.uses) :
             result.st.uses[i].child = result.st.uses[j].child =>
                 result.st.uses[i].value = result.st.uses[j].value

\* C4 witness: a Foo node handed to a sequence node by the general branch
\* and to a _getitem node by the indexed branch, and invoked once.
C4_Witness ==
    /\ Evaluated
    /\ result.st.error = "none"
    /\ \E i, j \in 1..Len(result.st.uses) :
         /\ result.st.uses[i].child = result.st.uses[j].child
         /\ heap[result.st.uses[i].child].func = "Foo"
         /\ Invocations(result.st.uses[i].child) = 1
         /\ heap[result.st.uses[i].parent].func = "_getitem"
         /\ heap[result.st.uses[j].parent].func \in {"make_list", "make_tuple"}

\* The evaluated root is _getitem(container, index) over a sequence node.
IndexedRoot ==
    /\ Evaluated
    /\ heap[result.root].kind = "PartialPlus"
    /\ heap[result.root].func = "_getitem"
    /\ Len(heap[result.root].args) = 2
    /\ heap[heap[result.root].args[1]].kind = "PartialPlus"
    /\ heap[heap[result.root].args[1]].func \in {"make_list", "make_tuple"}

RootContainer == heap[result.root].args[1]
RootIndex == heap[heap[result.root].args[2]].value

\* C5: evaluating _getitem(container, index) over a make_list or make_tuple
\* node with an integer index i gives what evaluating container.args[i]
\* alone gives, invokes funcs only for nodes that element depends on, and
\* evaluates no sibling element the chosen one does not depend on.
C5_IndexShortCircuit ==
    (/\ IndexedRoot
     /\ RootIndex.t = "int"
     /\ PyItem(heap[RootContainer].args, RootIndex.v).error = "none") =>
        LET elem == PyItem(heap[RootContainer].args, RootIndex.v).value
            alone == evaluate(heap, elem, result.names)
        IN  /\ result.st.error = alone.error
            /\ result.st.value = alone.value
            /\ InvokedNodes \subseteq Reachable(heap, elem)
            /\ \A s \in Range(heap[RootContainer].args) :
                 s \notin Reachable(heap, elem) =>
                     s \notin DOMAIN result.st.cache

\* C5 witness: an indexed lookup returned the integer element while the
\* sibling element is a dont_eval node.
C5_Witness ==
    /\ IndexedRoot
    /\ RootIndex.t = "int"
    /\ result.st.error = "none"
    /\ result.st.value = IntVal(7)
    /\ \E s \in Range(heap[RootContainer].args) : heap[s].func = "dont_eval"

\* C6: evaluating _getitem(container, index) over a make_list or make_tuple
\* node with a slice (start, stop) inside the sequence gives a container
\* of the source's type holding the values of container.args[start:stop]
\* in order, and evaluates no child outside the slice.
C6_SliceResult ==
    (/\ IndexedRoot
     /\ RootIndex.t = "slice"
     /\ 0 <= RootIndex.v[1]
     /\ RootIndex.v[1] <= RootIndex.v[2]
     /\ RootIndex.v[2] <= Len(heap[RootContainer].args)) =>
        LET selected == SubSeq(heap[RootContainer].args,
                               RootIndex.v[1] + 1, RootIndex.v[2])
            each == RecurseEach(heap, result.root, selected,
                                EvalStart(result.names), <<>>)
        IN  each.st.error = "none" =>
              /\ result.st.error = "none"
              /\ result.st.value =
                   [t |-> IF heap[RootContainer].func = "make_list"
                          THEN "list" ELSE "tuple",
                    v |-> each.vals]
              /\ \A s \in Range(heap[RootContainer].args) :
                   s \in DOMAIN result.st.cache =>
                       \E c \in Range(selected) : s \in Reachable(heap, c)

\* The evaluated root is a variable node whose name is a string literal.
VariableRoot ==
    /\ Evaluated
    /\ is_variable_node(heap, result.root)
    /\ "name" \in DOMAIN heap[result.root].keywords
    /\ heap[heap[result.root].keywords["name"]].kind = "Literal"
    /\ heap[heap[result.root].keywords["name"]].value.t = "str"

RootName == heap[heap[result.root].keywords["name"]].value.v

\* C8: evaluating a variable node returns the value bound to its name when
\* the name is a key of the bindings, fails with UnboundVariable when it is
\* not, and never invokes the variable marker.
C8_VariableLookup ==
    VariableRoot =>
        /\ RootName \in DOMAIN result.names =>
             /\ result.st.error = "none"
             /\ result.st.value = result.names[RootName]
        /\ RootName \notin DOMAIN result.names =>
             result.st.error = "UnboundVariable"
        /\ result.root \notin InvokedNodes

\* C9: evaluating a variable node invokes the func of none of its keyword
\* attributes other than name.
C9_AttributesNotEvaluated ==
    VariableRoot =>
        \A k \in {"value_type", "minimum", "maximum", "default", "log_scale",
                  "distribution"} \cap DOMAIN heap[result.root].keywords :
            heap[result.root].keywords[k] \notin InvokedNodes

\* ------------------------------------------------------------------------
\* Claims about the arithmetic operators.
\* ------------------------------------------------------------------------

\* What the host computes for a <op> b on integers, by the operator's
\* method name.
HostBinary(method, a, b) ==
    CASE method = "__add__" -> a + b
      [] method = "__sub__" -> a - b
      [] method = "__mul__" -> a * b
      [] method = "__div__" -> PyFloorDiv(a, b)
      [] method = "__mod__" -> PyMod(a, b)
      [] method = "__or__"  -> PyOr(a, b)
      [] method = "__xor__" -> PyXor(a, b)
      [] method = "__and__" -> PyAnd(a, b)

\* The integer a of the operand partial(int, a) built by call i.
Operand(i) == heap[heap[handles[i].node].args[1]].value.v

\* C7: for integers a and b (b non-zero for / and %) and each of the
\* operators + - * / % | ^ &, evaluating partial(int, a) <op> partial(int, b)
\* returns the host's a <op> b.
C7_BinaryOperators ==
    (/\ Evaluated
     /\ Len(handles) = 3
     /\ handles[3].call \in {"__div__", "__mod__"} => Operand(2) # 0) =>
        /\ result.st.error = "none"
        /\ result.st.value =
             IntVal(HostBinary(handles[3].call, Operand(1), Operand(2)))

\* C7 witness: 9 ^ 11 evaluated to 2.
C7_Witness ==
    /\ Evaluated
    /\ Len(handles) = 3
    /\ handles[3].call = "__xor__"
    /\ Operand(1) = 9
    /\ Operand(2) = 11
    /\ result.st.value = IntVal(2)

\* ------------------------------------------------------------------------
\* Claims about the parameter binder.
\* ------------------------------------------------------------------------

\* The node whose arg property was read, and its function's def line.
BoundNode == handles[1].node
BoundDef == Definition(heap[BoundNode].func)

\* What parameter number i of the def line is bound to.
BoundAs(i) ==
    LET p == BoundDef.params[i]
        first_default == Len(BoundDef.params) - Len(BoundDef.defaults)
    IN  IF i <= Len(heap[BoundNode].args)
        THEN arg_binding.binding[p] = NodeRef(heap[BoundNode].args[i])
        ELSE IF p \in DOMAIN heap[BoundNode].keywords
        THEN arg_binding.binding[p] = NodeRef(heap[BoundNode].keywords[p])
        ELSE IF i > first_default
        THEN /\ arg_binding.binding[p].t = "node"
             /\ arg_binding.binding[p].v > BoundNode
             /\ heap[arg_binding.binding[p].v] =
                    Literal(BoundDef.defaults[i - first_default])
        ELSE arg_binding.binding[p] = MissingArgument

\* C10: when binding succeeds, arg has exactly the declared positional
\* parameter names plus the declared *name and **name as keys; a positional
\* parameter maps to the positional child at its index, else the keyword
\* child of its name, else Literal(default) from the right-aligned defaults,
\* else MissingArgument; *name maps to the tuple of overflow positional
\* children and **name to the mapping of keyword children that match no
\* positional parameter; the values are the child nodes themselves.
C10_ArgMapping ==
    (phase = "bound" /\ arg_binding.error = "none") =>
        /\ DOMAIN arg_binding.binding =
               Range(BoundDef.params)
               \cup (IF BoundDef.star # "None" THEN {BoundDef.star} ELSE {})
               \cup (IF BoundDef.starstar # "None"
                     THEN {BoundDef.starstar} ELSE {})
        /\ \A i \in 1..Len(BoundDef.params) : BoundAs(i)
        /\ BoundDef.star # "None" =>
               arg_binding.binding[BoundDef.star] =
                   TupleVal([j \in 1..(IF Len(heap[BoundNode].args)
                                           > Len(BoundDef.params)
                                       THEN Len(heap[BoundNode].args)
                                            - Len(BoundDef.params)
                                       ELSE 0) |->
                      NodeRef(heap[BoundNode].args[Len(BoundDef.params) + j])])
        /\ BoundDef.starstar # "None" =>
               arg_binding.binding[BoundDef.starstar] =
                   Mapping([k \in DOMAIN heap[BoundNode].keywords
                                  \ Range(BoundDef.params) |->
                               NodeRef(heap[BoundNode].keywords[k])])

\* C10 witness: f(a, b, k=2) bound with one positional argument took a from
\* the argument, k from the default and left b missing.
C10_Witness ==
    /\ phase = "bound"
    /\ arg_binding.error = "none"
    /\ heap[BoundNode].func = "f(a, b, k=2)"
    /\ Len(heap[BoundNode].args) = 1
    /\ arg_binding.binding["a"] = NodeRef(heap[BoundNode].args[1])
    /\ arg_binding.binding["b"] = MissingArgument
    /\ heap[arg_binding.binding["k"].v] = Literal(IntVal(2))

\* The keyword names of the bound node that name a parameter already bound:
\* a positional parameter filled by a positional child, or *name.
AlreadyBound ==
    {k \in DOMAIN heap[BoundNode].keywords :
        \/ \E i \in 1..Len(BoundDef.params) :
              BoundDef.params[i] = k /\ i <= Len(heap[BoundNode].args)
        \/ k = BoundDef.star}

\* The keyword names of the bound node that no parameter takes.
Unrecognized ==
    {k \in DOMAIN heap[BoundNode].keywords :
        /\ k \notin Range(BoundDef.params)
        /\ k # BoundDef.star
        /\ BoundDef.starstar = "None"}

TooManyPositional ==
    /\ Len(heap[BoundNode].args) > Len(BoundDef.params)
    /\ BoundDef.star = "None"

\* The error reading arg ended with is the one the arguments call for.
BinderErrors ==
    phase = "bound" =>
        /\ arg_binding.error = "TooManyPositional" <=> TooManyPositional
        /\ arg_binding.error = "DuplicateArgument" =>
               ~TooManyPositional /\ AlreadyBound # {}
        /\ arg_binding.error = "UnrecognizedKeyword" =>
               ~TooManyPositional /\ Unrecognized # {}
        /\ arg_binding.error = "none" <=>
               ~TooManyPositional /\ AlreadyBound = {} /\ Unrecognized = {}
        /\ arg_binding.error \in {"none", "TooManyPositional",
                                  "DuplicateArgument", "UnrecognizedKeyword"}

\* Reading arg leaves every node that existed as it was.
BinderLeavesNodes ==
    phase' = "bound" => \A n \in NodeIds(heap) : heap'[n] = heap[n]

\* C11: the binder fails with TooManyPositional exactly when there are more
\* positional children than positional parameters and no *name, with
\* DuplicateArgument only for a keyword naming an already bound parameter,
\* with UnrecognizedKeyword only for a keyword no parameter takes when there
\* is no **name, returns a mapping in every other case, and leaves the
\* node's args and keywords unchanged in every case.
C11_BinderErrors == [](BinderErrors) /\ [][BinderLeavesNodes]_vars

\* C11 witness: a keyword named after a positional parameter that a
\* positional child already filled ended in DuplicateArgument, the node
\* unchanged.
C11_Witness ==
    /\ phase = "bound"
    /\ arg_binding.error = "DuplicateArgument"
    /\ heap[BoundNode].func = "f(a, b=None)"
    /\ Len(heap[BoundNode].args) = 1
    /\ DOMAIN heap[BoundNode].keywords = {"a"}

\* ------------------------------------------------------------------------
\* Claims about clone and replace_input.
\* ------------------------------------------------------------------------

\* The copy is the same node up to the renaming of its children.
CopyOf(n) ==
    LET c == cloned.bindings[n]
    IN  /\ heap[c].kind = heap[n].kind
        /\ heap[c].func = heap[n].func
        /\ heap[c].value = heap[n].value
        /\ Len(heap[c].args) = Len(heap[n].args)
        /\ \A i \in 1..Len(heap[n].args) :
             heap[c].args[i] = cloned.bindings[heap[n].args[i]]
        /\ DOMAIN heap[c].keywords = DOMAIN heap[n].keywords
        /\ \A k \in DOMAIN heap[n].keywords :
             heap[c].keywords[k] = cloned.bindings[heap[n].keywords[k]]

\* C12: clone(root) of an acyclic graph returns the root of a new graph
\* isomorphic to the original (func, value, args order, keywords names),
\* with one copy per original node (sharing preserved) and no non-leaf node
\* in common with the original.
C12_CloneIsomorphic ==
    phase = "cloned" =>
        /\ cloned.error = "none"
        /\ cloned.node = cloned.bindings[root]
        /\ DOMAIN cloned.bindings = Reachable(heap, root)
        /\ \A n \in Reachable(heap, root) : CopyOf(n)
        /\ \A n, m \in Reachable(heap, root) :
             cloned.bindings[n] = cloned.bindings[m] => n = m
        /\ \A n \in Reachable(heap, root) :
             heap[n].kind = "PartialPlus" =>
                 cloned.bindings[n] \notin Reachable(heap, root)

\* C13: n.replace_input(old, new) returns a new PartialPlus with the func of
\* n whose args and keywords are those of n with every child identical to
\* old replaced by new and every other child the same node.
C13_ReplaceInput ==
    phase = "replaced" =>
        LET n == heap[replaced.self]
            r == heap[replaced.node]
            Swap(c) == IF c = replaced.old_node THEN replaced.new_node ELSE c
        IN  /\ replaced.error = "none"
            /\ replaced.node \in NodeIds(heap)
            /\ replaced.node # replaced.self
            /\ r.kind = "PartialPlus"
            /\ r.func = n.func
            /\ r.args = [i \in 1..Len(n.args) |-> Swap(n.args[i])]
            /\ DOMAIN r.keywords = DOMAIN n.keywords
            /\ \A k \in DOMAIN n.keywords : r.keywords[k] = Swap(n.keywords[k])

\* ------------------------------------------------------------------------
\* Claims about lifting.
\* ------------------------------------------------------------------------

RECURSIVE Resolved(_)

\* v with each pending call replaced by its result, containers kept.
Resolved(v) ==
    IF v.t = "partial"
    THEN HostCall(v.v.func,
                  [i \in 1..Len(v.v.args) |-> Resolved(v.v.args[i])],
                  [k \in DOMAIN v.v.keywords |-> Resolved(v.v.keywords[k])],
                  0).value
    ELSE IF v.t \in {"list", "tuple"}
    THEN [t |-> v.t, v |-> [i \in 1..Len(v.v) |-> Resolved(v.v[i])]]
    ELSE IF v.t = "dict"
    THEN DictVal([i \in 1..Len(v.v) |-> <<v.v[i][1], Resolved(v.v[i][2])>>])
    ELSE v

UnarySymbol(method) ==
    CASE method = "__neg__" -> "-"
      [] method = "__pos__" -> "+"
      [] method = "__invert__" -> "~"

HostUnary(method, a) ==
    CASE method = "__neg__" -> 0 - a
      [] method = "__pos__" -> a
      [] method = "__invert__" -> 0 - a - 1

\* C15: for each of + - ~ the operator applied to a node x returns a new
\* PartialPlus with func _unary_arithmetic and positional children
\* (x, Literal(symbol)), leaves x as it was, and evaluates to the host
\* operator applied to the value of x.
C15_UnaryOperators ==
    (/\ phase = "evaluated"
     /\ handles[Len(handles)].call \in UnaryMethods) =>
        LET method == handles[Len(handles)].call
            x == handles[Len(handles) - 1].node
            made == heap[LastBuilt]
        IN  /\ made.kind = "PartialPlus"
            /\ made.func = "_unary_arithmetic"
            /\ Len(made.args) = 2
            /\ made.args[1] = x
            /\ heap[made.args[2]] = Literal(StrVal(UnarySymbol(method)))
            /\ heap[x].func = "int"
            /\ Len(heap[x].args) = 1
            /\ result.st.error = "none"
            /\ result.st.value =
                 IntVal(HostUnary(method, heap[heap[x].args[1]].value.v))

\* ------------------------------------------------------------------------
\* Claims about the graph's shape.
\* ------------------------------------------------------------------------

\* C16: after any constructions and append_arg / extend_args calls, with
\* any argument values, every element of every PartialPlus's args and every
\* value of its keywords is a Node (a Literal or a PartialPlus).
C16_ChildrenAreNodes ==
    \A n \in NodeIds(heap) :
        heap[n].kind = "PartialPlus" =>
            \A i \in 1..Len(Children(heap, n)) :
                heap[Children(heap, n)[i]].kind \in {"Literal", "PartialPlus"}

\* A traversal is under way.
Traversing == phase \in {"dfs", "topo_dfs", "topo"}

\* C17: on every acyclic graph, shared nodes at different depths included,
\* fully consuming depth_first_traversal(root) or topological_sort(root)
\* ends normally: no cycle error, no pop from an empty path, no missing
\* sentinel, and the topological worklist empties.
C17_TraversalsTerminate ==
    /\ [](raised = "none" /\ path.error = "none")
    /\ Traversing ~> (phase = "done" /\ raised = "none")

\* C17 witness: a finished topological sort of a graph in which a node is a
\* child of the root and of another child of the root.
C17_Witness ==
    /\ phase = "done"
    /\ build_inverted
    /\ raised = "none"
    /\ Len(candidates) = 0
    /\ Len(toposort) = Cardinality(Reachable(heap, root))
    /\ \E s, p \in Reachable(heap, root) :
         /\ p # s
         /\ IsChild(heap, root, s)
         /\ IsChild(heap, root, p)
         /\ IsChild(heap, p, s)

\* C18: when as_partialplus lifts a native mapping, the node of each
\* (key, value) pair is a make_tuple PartialPlus whose first child is
\* Literal(key), the key unchanged and not recursed into, also when the key
\* is a tuple.
C18_KeysAreLiterals ==
    (/\ Len(handles) = 1
     /\ handles[1].call = "as_partialplus"
     /\ lifted_value.t = "dict") =>
        LET made == heap[LastBuilt]
        IN  /\ made.func = "call_with_list_of_pos_args"
            /\ Len(made.args) = Len(lifted_value.v) + 1
            /\ \A i \in 1..Len(lifted_value.v) :
                 /\ heap[made.args[i + 1]].func = "make_tuple"
                 /\ Len(heap[made.args[i + 1]].args) = 2
                 /\ heap[heap[made.args[i + 1]].args[1]] =
                        Literal(lifted_value.v[i][1])

====
